---- MODULE Spec2Model ----
(***************************************************************************)
(* AllAngles reporter plugin (plugin.py): the 2d vector helpers, the two   *)
(* visibility flags with their context-menu entries, and the redraw        *)
(* callback that annotates the segments of the active layer.               *)
(*                                                                         *)
(* Python floats are modelled as decimal floating point numbers with four  *)
(* significant digits.  A float is carried as an integer count of          *)
(* micro-units (1.0 is 1000000), so that TLC's integers can hold it, and   *)
(* every arithmetic result is rounded to four significant digits, the way  *)
(* an IEEE operation rounds its result to 53 bits.  Coordinates are        *)
(* integers of design-space units.                                         *)
(***************************************************************************)
EXTENDS Integers, Sequences, FiniteSets

\* ------------------------------------------------------------------------
\* Bounds of the model
\* ------------------------------------------------------------------------

\* Vector components handed to get_vector_angle range over -MaxCoord..MaxCoord.
MaxCoord == 4

\* The path of the active layer has at most MaxSegs segments.
MaxSegs == 2

\* ------------------------------------------------------------------------
\* Floating point
\* ------------------------------------------------------------------------

RECURSIVE Pow10(_)
Pow10(k) == IF k = 0 THEN 1 ELSE 10 * Pow10(k - 1)

\* Micro-units per 1.0.
One == Pow10(6)

\* Every float has a mantissa below Mantissa (four decimal digits).
Mantissa == Pow10(4)

Abs(v) == IF v < 0 THEN -v ELSE v

Sgn(v) == IF v < 0 THEN -1 ELSE 1

\* Spacing of the representable floats around magnitude a: one unit of the
\* last mantissa digit.  Magnitudes under 0.01 keep the micro-unit grid.
RECURSIVE Quantum(_)
Quantum(a) == IF a < Mantissa THEN 1 ELSE 10 * Quantum(a \div 10)

\* Round to nearest representable float; the rounding is symmetric in sign.
Fl(v) ==
  LET a == Abs(v)
      q == Quantum(a)
  IN  Sgn(v) * (((a + q \div 2) \div q) * q)

\* floor(n * 10^k / d) by long division, for 0 <= n and 0 < d.
RECURSIVE LongDiv(_, _, _)
LongDiv(n, d, k) ==
  IF k = 0 THEN n \div d
  ELSE (n \div d) * Pow10(k) + LongDiv((n % d) * 10, d, k - 1)

\* floor(sqrt(n)) by bisection on lo..hi, lo*lo <= n < (hi+1)*(hi+1).
RECURSIVE ISqrtIn(_, _, _)
ISqrtIn(n, lo, hi) ==
  IF lo >= hi THEN lo
  ELSE LET mid == (lo + hi + 1) \div 2
       IN  IF mid * mid <= n THEN ISqrtIn(n, mid, hi)
           ELSE ISqrtIn(n, lo, mid - 1)

\* sqrt of the integer s as a float: four digits, round to nearest.
RECURSIVE math_sqrt(_)
math_sqrt(s) ==
  IF s < 100
    THEN Fl(((ISqrtIn(4 * s * One, 0, 32767) + 1) \div 2) * 1000)
    ELSE 10 * math_sqrt(s \div 100)

\* The integer x divided by the float len (len > 0), as a float.
FloatDiv(x, len) == Sgn(x) * Fl(LongDiv(Abs(x) * One, len, 6))

\* atan(2^-i) in micro-degrees, i = 0..23.
AtanTable ==
  << 45000000, 26565051, 14036243, 7125016, 3576334, 1789911, 895174,
     447614, 223811, 111906, 55953, 27976, 13988, 6994, 3497, 1749, 874,
     437, 219, 109, 55, 27, 14, 7 >>

RECURSIVE Pow2(_)
Pow2(k) == IF k = 0 THEN 1 ELSE 2 * Pow2(k - 1)

\* Angle in micro-degrees of the vector (cx, cy), cx > 0, from the cx axis,
\* by rotating it onto that axis in steps of atan(2^-i).
RECURSIVE Cordic(_, _, _, _)
Cordic(cx, cy, i, acc) ==
  IF i > Len(AtanTable) THEN acc
  ELSE LET p == Pow2(i - 1)
       IN  IF cy > 0
             THEN Cordic(cx + cy \div p, cy - cx \div p, i + 1, acc + AtanTable[i])
             ELSE Cordic(cx - cy \div p, cy + cx \div p, i + 1, acc - AtanTable[i])

\* degrees(atan2(a, b)) for float arguments a, b that are not both zero: the
\* angle in (-180, 180] whose sine is proportional to a and whose cosine is
\* proportional to b, rounded to a float.  On the axes the result is exact,
\* as degrees(pi / 2) == 90.0 and degrees(pi) == 180.0 are in Python.  With
\* b < 0 the angle has the magnitude of 180 - phi and is rounded there.
degrees_atan2(a, b) ==
  IF a = 0 THEN (IF b > 0 THEN 0 ELSE 180 * One)
  ELSE IF b = 0 THEN Sgn(a) * 90 * One
  ELSE LET phi == Cordic(Abs(b) * 256, Abs(a) * 256, 1, 0)
       IN  IF b > 0 THEN Sgn(a) * Fl(phi)
           ELSE Sgn(a) * Fl(180 * One - phi)

\* Python's float d % 180: fmod, then the divisor is added to a negative
\* remainder, and that sum is rounded like any other.
Mod180(d) ==
  IF d >= 180 * One THEN d - 180 * One
  ELSE IF d >= 0 THEN d
  ELSE IF d = -180 * One THEN 0
  ELSE Fl(d + 180 * One)

\* get_unit_vector(x, y): ZeroDivisionError on the zero vector.
get_unit_vector(x, y) ==
  LET length == math_sqrt(x * x + y * y)
  IN  IF length = 0
        THEN [raised |-> TRUE, x |-> 0, y |-> 0]
        ELSE [raised |-> FALSE, x |-> FloatDiv(x, length), y |-> FloatDiv(y, length)]

\* get_vector_angle(x, y): the error of get_unit_vector propagates.
get_vector_angle(x, y) ==
  LET n == get_unit_vector(x, y)
  IN  IF n.raised
        THEN [raised |-> TRUE, value |-> 0]
        ELSE [raised |-> FALSE, value |-> Mod180(degrees_atan2(n.x, n.y))]

\* ------------------------------------------------------------------------
\* Constants of the plugin
\* ------------------------------------------------------------------------

\* Red, green and blue of the two indicator colours, in 256ths.
LINE_COLOR == <<56, 217, 137>>

HANDLE_COLOR == <<217, 56, 107>>

\* Fractional digits of a printed angle.
PRECISION == 1

\* Class attributes of AllAngles: what an instance reads until it has
\* assigned the attribute itself.
AllAngles == [show_lines |-> TRUE, show_handles |-> FALSE]

\* ------------------------------------------------------------------------
\* Inputs
\* ------------------------------------------------------------------------

\* Node positions of the outline.
Points == {<<0, 0>>, <<1, 0>>}

\* Point counts of a segment: a line, a quadratic curve, a cubic curve.
SegLens == {2, 3, 4}

Segments == UNION {[1..n -> Points] : n \in SegLens}

\* The segments of the active layer in the order the nested loops of the
\* redraw visit them.  The layer has one path, so each segment starts at the
\* node the one before it ends at.
Layers ==
  {l \in UNION {[1..n -> Segments] : n \in 1..MaxSegs} :
     \A i \in 1..(Len(l) - 1) : l[i + 1][1] = l[i][Len(l[i])]}

\* What Glyphs.font.currentTab yields when a toggle asks for it: an edit
\* tab, None, or an AttributeError because Glyphs.font is None.
TabStates == {"tab", "notab", "nofont"}

Vectors == (-MaxCoord..MaxCoord) \X (-MaxCoord..MaxCoord)

\* ------------------------------------------------------------------------
\* State
\* ------------------------------------------------------------------------

VARIABLES
  self,       \* the attributes the plugin instance has assigned
  layer,      \* the active layer the host hands to foreground
  draws,      \* draws[i]: what the last redraw did at segment i of the layer
  raised,     \* the last callback let an exception reach the host
  last,       \* name of the last callback the host made
  hist,       \* the last toggle: the tab state it met, the flag's value before
              \* it, whether it asked the view to repaint, and how many calls
              \* of the same toggle it ends (counted to 2)
  vec,        \* argument of get_vector_angle under test
  theta,      \* get_vector_angle(vec), once called
  theta_rev   \* get_vector_angle(-vec), once called

vars == <<self, layer, draws, raised, last, hist, vec, theta, theta_rev>>

angleVars == <<vec, theta, theta_rev>>

\* Attribute lookup on the instance: the instance's own value, else the
\* class attribute.
GetAttr(obj, name) == IF name \in DOMAIN obj THEN obj[name] ELSE AllAngles[name]

SetAttr(obj, name, v) ==
  [k \in DOMAIN obj \cup {name} |-> IF k = name THEN v ELSE obj[k]]

\* settings(): the menu name and the two context-menu entries.  Entry 1 is
\* generalContextMenus[0] of the source, entry 2 is generalContextMenus[1].
settings ==
  [menuName |-> "All Angles",
   generalContextMenus |->
     << [name |-> "Hide Line Angles ", action |-> "toggleLines"],
        [name |-> "Show Handle Angles", action |-> "toggleHandles"] >>]

\* refresh_view() without its try/except: the AttributeError of a missing
\* font reaches the caller.
refresh_view_unguarded(tab) ==
  [setNeedsDisplay |-> (tab = "tab"), raised |-> (tab = "nofont")]

\* refresh_view(): asks the current tab's view to repaint; any exception on
\* the way is swallowed.
refresh_view(tab) ==
  [setNeedsDisplay |-> (tab = "tab"), raised |-> FALSE]

\* Label of an angle: str(round(theta, PRECISION)), kept as the number of
\* tenths of a degree; the degree sign after it is left out.
pretty_angle(t) ==
  LET tenth == One \div Pow10(PRECISION)
  IN  (t + tenth \div 2) \div tenth

\* render_indicator_for_line_segment(segment, draw_color): the leader line and
\* the label, or the ZeroDivisionError of get_unit_vector.
render_indicator_for_line_segment(segment, draw_color) ==
  LET dx == segment[2][1] - segment[1][1]
      dy == segment[2][2] - segment[1][2]
      t  == get_vector_angle(dx, dy)
  IN  IF t.raised
        THEN [raised |-> TRUE, cmds |-> <<>>]
        ELSE [raised |-> FALSE,
              cmds |-> << [op |-> "stroke", color |-> draw_color, of |-> segment],
                          [op |-> "text", color |-> draw_color, of |-> segment,
                           text |-> pretty_angle(t.value)] >>]

\* foreground's loop body with the line test loosened to "at least 2 points".
foreground_segment_loose(obj, segment) ==
  IF Len(segment) >= 2 /\ GetAttr(obj, "show_lines")
    THEN render_indicator_for_line_segment(<<segment[1], segment[2]>>, LINE_COLOR)
  ELSE IF Len(segment) = 4 /\ GetAttr(obj, "show_handles")
    THEN LET r1 == render_indicator_for_line_segment(<<segment[1], segment[2]>>, HANDLE_COLOR)
             r2 == render_indicator_for_line_segment(<<segment[3], segment[4]>>, HANDLE_COLOR)
         IN  IF r1.raised THEN r1
             ELSE [raised |-> r2.raised, cmds |-> r1.cmds \o r2.cmds]
  ELSE [raised |-> FALSE, cmds |-> <<>>]

\* Body of foreground's loop for one segment.
foreground_segment(obj, segment) ==
  IF Len(segment) = 2 /\ GetAttr(obj, "show_lines")
    THEN render_indicator_for_line_segment(<<segment[1], segment[2]>>, LINE_COLOR)
  ELSE IF Len(segment) = 4 /\ GetAttr(obj, "show_handles")
    THEN LET r1 == render_indicator_for_line_segment(<<segment[1], segment[2]>>, HANDLE_COLOR)
             r2 == render_indicator_for_line_segment(<<segment[3], segment[4]>>, HANDLE_COLOR)
         IN  IF r1.raised THEN r1
             ELSE [raised |-> r2.raised, cmds |-> r1.cmds \o r2.cmds]
  ELSE [raised |-> FALSE, cmds |-> <<>>]

NotVisited == [visited |-> FALSE, raised |-> FALSE, cmds |-> <<>>]

\* foreground(layer) from segment i on, out holding what happened so far: an
\* exception ends the loop, and the segments after it are never visited.
RECURSIVE foreground_from(_, _, _, _)
foreground_from(obj, l, i, out) ==
  IF i > Len(l) THEN [raised |-> FALSE, draws |-> out]
  ELSE LET r == foreground_segment(obj, l[i])
           here == [visited |-> TRUE, raised |-> r.raised, cmds |-> r.cmds]
       IN  IF r.raised
             THEN [raised |-> TRUE,
                   draws |-> [k \in 1..Len(l) |->
                               IF k < i THEN out[k] ELSE IF k = i THEN here ELSE NotVisited]]
             ELSE foreground_from(obj, l, i + 1, Append(out, here))

foreground(obj, l) == foreground_from(obj, l, 1, <<>>)

\* ------------------------------------------------------------------------
\* Plugin: toggles and redraws
\* ------------------------------------------------------------------------

NoHist == [tab |-> "tab", old |-> FALSE, setNeedsDisplay |-> FALSE, run |-> 0]

NotCalled == [called |-> FALSE, raised |-> FALSE, value |-> 0]

Init ==
  /\ self = settings
  /\ layer \in Layers
  /\ draws = <<>>
  /\ raised = FALSE
  /\ last = "settings"
  /\ hist = NoHist
  /\ vec = <<1, 0>>
  /\ theta = NotCalled
  /\ theta_rev = NotCalled

\* toggleLines() inverting the class attribute instead of the instance's
\* current value.
toggleLines_from_class(tab) ==
  LET s1 == SetAttr(self, "show_lines", ~AllAngles.show_lines)
      menuName == IF GetAttr(s1, "show_lines") THEN "Hide Line Angles" ELSE "Show Line Angles"
      s2 == SetAttr(s1, "generalContextMenus",
                    [GetAttr(s1, "generalContextMenus") EXCEPT
                       ![1] = [name |-> menuName, action |-> "toggleLines"]])
  IN  /\ self' = s2
      /\ raised' = refresh_view(tab).raised
      /\ draws' = <<>>
      /\ last' = "toggleLines"
      /\ UNCHANGED <<layer, angleVars>>

\* toggleLines(), with the host's current tab state as input.
toggleLines(tab) ==
  LET s1 == SetAttr(self, "show_lines", ~GetAttr(self, "show_lines"))
      menuName == IF GetAttr(s1, "show_lines") THEN "Hide Line Angles" ELSE "Show Line Angles"
      s2 == SetAttr(s1, "generalContextMenus",
                    [GetAttr(s1, "generalContextMenus") EXCEPT
                       ![1] = [name |-> menuName, action |-> "toggleLines"]])
  IN  /\ self' = s2
      /\ raised' = refresh_view(tab).raised
      /\ draws' = <<>>
      /\ last' = "toggleLines"
      /\ UNCHANGED <<layer, angleVars>>

\* toggleHandles() writing its label into the entry of toggleLines.
toggleHandles_wrong_entry(tab) ==
  LET s1 == SetAttr(self, "show_handles", ~GetAttr(self, "show_handles"))
      menuName == IF GetAttr(s1, "show_handles") THEN "Hide Handle Angles" ELSE "Show Handle Angles"
      s2 == SetAttr(s1, "generalContextMenus",
                    [GetAttr(s1, "generalContextMenus") EXCEPT
                       ![1] = [name |-> menuName, action |-> "toggleHandles"]])
  IN  /\ self' = s2
      /\ raised' = refresh_view(tab).raised
      /\ draws' = <<>>
      /\ last' = "toggleHandles"
      /\ UNCHANGED <<layer, angleVars>>

\* toggleHandles(), with the host's current tab state as input.
toggleHandles(tab) ==
  LET s1 == SetAttr(self, "show_handles", ~GetAttr(self, "show_handles"))
      menuName == IF GetAttr(s1, "show_handles") THEN "Hide Handle Angles" ELSE "Show Handle Angles"
      s2 == SetAttr(s1, "generalContextMenus",
                    [GetAttr(s1, "generalContextMenus") EXCEPT
                       ![2] = [name |-> menuName, action |-> "toggleHandles"]])
  IN  /\ self' = s2
      /\ raised' = refresh_view(tab).raised
      /\ draws' = <<>>
      /\ last' = "toggleHandles"
      /\ UNCHANGED <<layer, angleVars>>

\* The host repaints the edit view and calls foreground(layer).
Foreground ==
  LET r == foreground(self, layer)
  IN  /\ draws' = r.draws
      /\ raised' = r.raised
      /\ last' = "foreground"
      /\ UNCHANGED <<self, layer, angleVars>>

ToggleLines == \E tab \in TabStates : toggleLines(tab) /\ UNCHANGED hist

ToggleHandles == \E tab \in TabStates : toggleHandles(tab) /\ UNCHANGED hist

Redraw == Foreground /\ UNCHANGED hist

Next == ToggleLines \/ ToggleHandles \/ Redraw

Spec == Init /\ [][Next]_vars

\* ------------------------------------------------------------------------
\* The toggles alone, with the history of the last toggle kept
\* ------------------------------------------------------------------------

\* History of a toggle named op of the flag named flag, met with tab.
Recorded(op, flag, tab) ==
  [tab |-> tab,
   old |-> GetAttr(self, flag),
   setNeedsDisplay |-> refresh_view(tab).setNeedsDisplay,
   run |-> IF last = op /\ hist.run >= 1 THEN 2 ELSE 1]

InitToggle ==
  /\ Init
  /\ Len(layer) = 1

ToggleLinesRecorded ==
  \E tab \in TabStates :
    toggleLines(tab) /\ hist' = Recorded("toggleLines", "show_lines", tab)

ToggleHandlesRecorded ==
  \E tab \in TabStates :
    toggleHandles(tab) /\ hist' = Recorded("toggleHandles", "show_handles", tab)

RedrawRecorded == Foreground /\ hist' = NoHist

NextToggle == ToggleLinesRecorded \/ ToggleHandlesRecorded \/ RedrawRecorded

SpecToggle == InitToggle /\ [][NextToggle]_vars

\* ------------------------------------------------------------------------
\* get_vector_angle alone, on a vector and on its reverse
\* ------------------------------------------------------------------------

InitAngle ==
  /\ self = settings
  /\ layer = << <<(<<0, 0>>), (<<1, 0>>)>> >>
  /\ draws = <<>>
  /\ raised = FALSE
  /\ last = "settings"
  /\ hist = NoHist
  /\ vec \in Vectors
  /\ theta = NotCalled
  /\ theta_rev = NotCalled

Called(r) == [called |-> TRUE, raised |-> r.raised, value |-> r.value]

CallAngle ==
  /\ ~theta.called
  /\ theta' = Called(get_vector_angle(vec[1], vec[2]))
  /\ UNCHANGED <<self, layer, draws, raised, last, hist, vec, theta_rev>>

CallAngleReversed ==
  /\ ~theta_rev.called
  /\ theta_rev' = Called(get_vector_angle(-vec[1], -vec[2]))
  /\ UNCHANGED <<self, layer, draws, raised, last, hist, vec, theta>>

NextAngle == CallAngle \/ CallAngleReversed

SpecAngle == InitAngle /\ [][NextAngle]_vars

\* ------------------------------------------------------------------------
\* Properties
\* ------------------------------------------------------------------------

ShowLines == GetAttr(self, "show_lines")

ShowHandles == GetAttr(self, "show_handles")

Menus == GetAttr(self, "generalContextMenus")

Toggles == {"toggleLines", "toggleHandles"}

\* The lines the redraw is to annotate for a segment under the current
\* flags: the segment itself, the two handles of a curve, or nothing.
LinesOf(segment) ==
  IF Len(segment) = 2 /\ ShowLines THEN << <<segment[1], segment[2]>> >>
  ELSE IF Len(segment) = 4 /\ ShowHandles
    THEN << <<segment[1], segment[2]>>, <<segment[3], segment[4]>> >>
  ELSE <<>>

ZeroLength(line) == line[1] = line[2]

HasZeroLength(segment) ==
  \E k \in 1..Len(LinesOf(segment)) : ZeroLength(LinesOf(segment)[k])

\* cmds is one annotation of line in colour: a leader line, then a label.
IsAnnotation(cmds, line, colour) ==
  /\ Len(cmds) = 2
  /\ cmds[1].op = "stroke" /\ cmds[2].op = "text"
  /\ cmds[1].of = line /\ cmds[2].of = line
  /\ cmds[1].color = colour /\ cmds[2].color = colour

\* Segment j of the layer got an annotation for each of its lines that has
\* a length.
Annotated(j) ==
  LET lines == LinesOf(layer[j])
      good  == {k \in 1..Len(lines) : ~ZeroLength(lines[k])}
  IN  Len(draws[j].cmds) = 2 * Cardinality(good)

\* C1: toggling a flag stores the inverted value on the instance, and a
\* second toggle of the same flag right after the first gives the flag the
\* value it had before the first.
C1_ToggleTwiceRestores ==
  [][/\ (last' = "toggleLines") =>
         (/\ "show_lines" \in DOMAIN self'
          /\ self'.show_lines = ~ShowLines
          /\ (last = "toggleLines") => (self'.show_lines = hist.old))
     /\ (last' = "toggleHandles") =>
         (/\ "show_handles" \in DOMAIN self'
          /\ self'.show_handles = ~ShowHandles
          /\ (last = "toggleHandles") => (self'.show_handles = hist.old))]_vars

C1_Witness ==
  /\ last = "toggleLines"
  /\ hist.run = 2
  /\ hist.old = FALSE
  /\ self.show_lines = TRUE

\* C2: after a toggle, entry 0 of the context menu reads 'Hide Line Angles'
\* exactly when show_lines is true and 'Show Line Angles' exactly when it is
\* false, and entry 1 reads 'Hide Handle Angles' exactly when show_handles is
\* true and 'Show Handle Angles' exactly when it is false.
C2_LabelsReflectFlags ==
  last \in Toggles =>
    /\ ((Menus[1].name = "Hide Line Angles") <=> ShowLines)
    /\ ((Menus[1].name = "Show Line Angles") <=> ~ShowLines)
    /\ ((Menus[2].name = "Hide Handle Angles") <=> ShowHandles)
    /\ ((Menus[2].name = "Show Handle Angles") <=> ~ShowHandles)

\* C3: a redraw that meets a zero-length line it is to annotate raises no
\* error, draws nothing for that line, and annotates every later segment.
C3_ZeroLengthSkipped ==
  last = "foreground" =>
    \A i \in 1..Len(layer) :
      HasZeroLength(layer[i]) =>
        /\ ~raised
        /\ ~draws[i].raised
        /\ \A j \in i..Len(layer) : Annotated(j)

\* C4: get_vector_angle(1, 0) is 0.0, get_vector_angle(0, 1) is 90.0 and
\* get_vector_angle(-1, 0) is 0.0.
C4_AngleFromHorizontal ==
  theta.called =>
    /\ (vec = <<1, 0>>) => (~theta.raised /\ theta.value = 0)
    /\ (vec = <<0, 1>>) => (~theta.raised /\ theta.value = 90 * One)
    /\ (vec = <<-1, 0>>) => (~theta.raised /\ theta.value = 0)

\* C5: for a non-zero vector, get_vector_angle gives the vector and its
\* reverse the same angle, and the angle is at least 0 and less than 180.
C5_ReflectionAndRange ==
  (theta.called /\ theta_rev.called /\ vec # <<0, 0>>) =>
    /\ theta.value = theta_rev.value
    /\ 0 <= theta.value /\ theta.value < 180 * One

\* C6: after a redraw, every 2-point segment with a length has exactly one
\* annotation in the line colour if show_lines is set, and none otherwise.
C6_OneAnnotationPerLine ==
  last = "foreground" =>
    \A i \in 1..Len(layer) :
      (Len(layer[i]) = 2 /\ layer[i][1] # layer[i][2]) =>
        IF ShowLines
          THEN IsAnnotation(draws[i].cmds, layer[i], LINE_COLOR)
          ELSE draws[i].cmds = <<>>

\* C7: after a redraw, every 4-point segment has exactly two annotations in
\* the handle colour if show_handles is set, the first for points 1-2 and
\* the second for points 3-4, and none otherwise.
C7_TwoAnnotationsPerCurve ==
  last = "foreground" =>
    \A i \in 1..Len(layer) :
      Len(layer[i]) = 4 =>
        IF ShowHandles
          THEN /\ Len(draws[i].cmds) = 4
               /\ IsAnnotation(SubSeq(draws[i].cmds, 1, 2),
                               <<layer[i][1], layer[i][2]>>, HANDLE_COLOR)
               /\ IsAnnotation(SubSeq(draws[i].cmds, 3, 4),
                               <<layer[i][3], layer[i][4]>>, HANDLE_COLOR)
          ELSE draws[i].cmds = <<>>

\* C8: a toggle that finds no edit tab, or fails to get at it, raises no
\* error and asks for no repaint, and still inverts its flag and sets its
\* menu label.
C8_ToggleWithoutView ==
  (last \in Toggles /\ hist.tab \in {"notab", "nofont"}) =>
    /\ ~raised
    /\ ~hist.setNeedsDisplay
    /\ (last = "toggleLines") =>
         (/\ ShowLines = ~hist.old
          /\ Menus[1].name = IF ShowLines THEN "Hide Line Angles" ELSE "Show Line Angles")
    /\ (last = "toggleHandles") =>
         (/\ ShowHandles = ~hist.old
          /\ Menus[2].name = IF ShowHandles THEN "Hide Handle Angles" ELSE "Show Handle Angles")

C8_Witness ==
  /\ last = "toggleHandles"
  /\ hist.tab = "nofont"
  /\ ShowHandles

C10_FlagsChangeOnlyInOwnToggle ==
  [][/\ (last' = "foreground") => (self' = self)
     /\ (last' = "toggleLines") =>
         (/\ GetAttr(self', "show_handles") = ShowHandles
          /\ GetAttr(self', "generalContextMenus")[2] = Menus[2])
     /\ (last' = "toggleHandles") =>
         (/\ GetAttr(self', "show_lines") = ShowLines
          /\ GetAttr(self', "generalContextMenus")[1] = Menus[1])
     /\ (GetAttr(self', "show_lines") # ShowLines) => (last' = "toggleLines")
     /\ (GetAttr(self', "show_handles") # ShowHandles) => (last' = "toggleHandles")]_vars

C10_Witness ==
  /\ last = "foreground"
  /\ "show_lines" \in DOMAIN self
  /\ "show_handles" \in DOMAIN self
  /\ \E i \in 1..Len(layer) : draws[i].cmds # <<>>

====
